---- MODULE Spec2Model ----
(***************************************************************************)
(* Model of src/src/components/Preview.tsx: the TimeDisplay widget (the    *)
(* "Display Widget") and the SuspensePreview mode controller.              *)
(*                                                                         *)
(* Every action is one task of the single JavaScript thread: the mount     *)
(* with its first render, a flush of passive effects, the scheduled render *)
(* of enqueued state updates, a click on the Switch, a firing of the       *)
(* interval callback, an unmount, or the passing of clock time.            *)
(*                                                                         *)
(* setTimeData only enqueues an update: an update made by an effect or by  *)
(* the interval callback is rendered by a later task (ScheduledRender),    *)
(* and a click or an unmount may come in between.  A click is rendered in  *)
(* its own task, after the pending passive effects are flushed, and the    *)
(* effects of that render are flushed in the same task; whether the        *)
(* click's render also takes the updates already enqueued depends on the   *)
(* scheduler, so both outcomes are modelled.                               *)
(*                                                                         *)
(* TimeDisplay is created in one place, inside SuspensePreview: Unmount    *)
(* and Mount are those of the whole tree, and a mount starts from          *)
(* useState('server').  The cleanup of the update effect of an unmounted   *)
(* tree runs in the task of the unmount when the unmount is rendered at    *)
(* sync priority, and in a later flush of passive effects otherwise.       *)
(***************************************************************************)
EXTENDS Integers, Sequences, FiniteSets, TLC

VARIABLES renderMode,      \* SuspensePreview: useState('server')
          mounted,         \* the tree is mounted
          timeData,        \* TimeDisplay: useState<TimeState>, as committed
          queue,           \* setTimeData updates enqueued and not yet rendered
          view,            \* the committed render output of TimeDisplay
          deps,            \* [mode, timeData.isHydrated] of the committed render
          pendingEffects,  \* passive effects scheduled and not yet flushed
          cleanup,         \* interval handle held by the update effect's cleanup (0: none)
          timers,          \* the browser's table of active interval timers
          console,         \* console.log lines written by the last action
          hydrations,      \* runs of the hydration effect in the current mount
          now              \* the wall clock, in ms since the epoch

vars == <<renderMode, mounted, timeData, queue, view, deps, pendingEffects,
          cleanup, timers, console, hydrations, now>>

\* setInterval(..., 1000)
Interval == 1000
\* clock steps per interval
Granularity == 2
\* the clock value at construction
Start == 58000
\* the last clock value explored
MaxNow == 61000

Step == Interval \div Granularity

Modes == {"server", "client"}

Min(S) == CHOOSE x \in S : \A y \in S : x <= y

(***************************************************************************)
(* Date.prototype.toISOString, for instants of the first day of the epoch. *)
(***************************************************************************)
DigitChar(d) == <<"0", "1", "2", "3", "4", "5", "6", "7", "8", "9">>[d + 1]

RECURSIVE Pad(_, _)
Pad(n, w) == IF w = 0 THEN <<>> ELSE Pad(n \div 10, w - 1) \o <<DigitChar(n % 10)>>

toISOString(t) ==
    <<"1", "9", "7", "0", "-", "0", "1", "-", "0", "1", "T">>
        \o Pad((t \div 3600000) % 24, 2) \o <<":">>
        \o Pad((t \div 60000) % 60, 2) \o <<":">>
        \o Pad((t \div 1000) % 60, 2) \o <<".">>
        \o Pad(t % 1000, 3) \o <<"Z">>

\* Variant: the state starts with a timestamp taken during the first render.
InitialTimeData_Eager == [timestamp |-> toISOString(0), isHydrated |-> FALSE]

InitialTimeData == [timestamp |-> <<>>, isHydrated |-> FALSE]

(***************************************************************************)
(* Render output.                                                          *)
(***************************************************************************)
NoView ==
    [component |-> "none", indicator |-> "", label |-> "",
     timestamp |-> <<>>, message |-> ""]

LoadingDisplay ==
    [component |-> "LoadingDisplay", indicator |-> "bg-gray-300", label |-> "",
     timestamp |-> <<>>, message |-> ""]

\* Variant: the indicator ignores the mode.
TimeDisplay_BlueOnly(mode, td) ==
    IF Len(td.timestamp) = 0
    THEN LoadingDisplay
    ELSE [component |-> "TimeDisplay",
          indicator |-> "bg-blue-500",
          label     |-> IF mode = "client" THEN "Client Rendered"
                                           ELSE "Server Rendered",
          timestamp |-> td.timestamp,
          message   |-> IF mode = "client"
                        THEN "Live updating with Suspense"
                        ELSE "Static server render with Suspense"]

TimeDisplay(mode, td) ==
    IF Len(td.timestamp) = 0
    THEN LoadingDisplay
    ELSE [component |-> "TimeDisplay",
          indicator |-> IF mode = "client" /\ td.isHydrated
                        THEN "bg-green-500 animate-pulse"
                        ELSE "bg-blue-500",
          label     |-> IF mode = "client" THEN "Client Rendered"
                                           ELSE "Server Rendered",
          timestamp |-> td.timestamp,
          message   |-> IF mode = "client"
                        THEN "Live updating with Suspense"
                        ELSE "Static server render with Suspense"]

(***************************************************************************)
(* The TimeDisplay fiber as a record, so that the steps of one task        *)
(* compose.                                                                *)
(***************************************************************************)
Fiber ==
    [timeData |-> timeData, queue |-> queue, view |-> view, deps |-> deps,
     pendingEffects |-> pendingEffects, cleanup |-> cleanup,
     timers |-> timers, console |-> <<>>, hydrations |-> hydrations]

Commit(s) ==
    /\ timeData' = s.timeData
    /\ queue' = s.queue
    /\ view' = s.view
    /\ deps' = s.deps
    /\ pendingEffects' = s.pendingEffects
    /\ cleanup' = s.cleanup
    /\ timers' = s.timers
    /\ console' = s.console
    /\ hydrations' = s.hydrations

NoDeps == <<>>

\* Variant: the hydration effect sets the timestamp and leaves the flag.
HydrationState_NoFlag(t) == [timestamp |-> toISOString(t), isHydrated |-> FALSE]

\* The object the hydration effect passes to setTimeData.
HydrationState(t) == [timestamp |-> toISOString(t), isHydrated |-> TRUE]

\* Variant: the callback replaces the state without spreading prev.
IntervalCallback_NoSpread(prev, t) ==
    [timestamp |-> toISOString(t), isHydrated |-> FALSE]

\* Variant: the callback keeps the previous timestamp.
IntervalCallback_Stale(prev, t) == prev

\* prev => ({...prev, timestamp: new Date().toISOString()})
IntervalCallback(prev, t) == [prev EXCEPT !.timestamp = toISOString(t)]

\* The state after the enqueued updates, applied in order to prev.
RECURSIVE processUpdateQueue(_, _)
processUpdateQueue(prev, q) ==
    IF q = <<>>
    THEN prev
    ELSE processUpdateQueue(IF Head(q).kind = "set"
                            THEN HydrationState(Head(q).t)
                            ELSE IntervalCallback(prev, Head(q).t),
                            Tail(q))

\* Variant: the dependency array of the update effect omits the mode.
Render_NoModeDep(s, mode) ==
    LET d == <<mode, s.timeData.isHydrated>> IN
    [s EXCEPT !.view = TimeDisplay(mode, s.timeData),
              !.deps = IF s.deps = NoDeps THEN d ELSE <<s.deps[1], d[2]>>,
              !.pendingEffects = IF s.deps = NoDeps \/ d[2] # s.deps[2]
                                 THEN @ \cup {"update"} ELSE @]

\* One render and commit of TimeDisplay with prop mode: the output is
\* replaced and the update effect is scheduled when its dependencies changed.
Render(s, mode) ==
    LET d == <<mode, s.timeData.isHydrated>> IN
    [s EXCEPT !.view = TimeDisplay(mode, s.timeData),
              !.deps = d,
              !.pendingEffects = IF d # s.deps THEN @ \cup {"update"} ELSE @]

\* A render that takes the enqueued updates.
RenderQueue(s, mode) ==
    Render([s EXCEPT !.timeData = processUpdateQueue(@, s.queue),
                     !.queue = <<>>], mode)

NewHandle(tm) == CHOOSE i \in 1..(Cardinality(tm) + 1) : \A t \in tm : t.id # i

setInterval(tm, t) ==
    tm \cup {[id |-> NewHandle(tm), due |-> t + Interval, live |-> TRUE]}

clearInterval(tm, id) == {t \in tm : t.id # id}

\* useEffect(() => setTimeData({timestamp: now, isHydrated: true}), [])
HydrationEffect(s, t) ==
    [s EXCEPT !.queue = Append(@, [kind |-> "set", t |-> t]),
              !.hydrations = @ + 1]

\* Variant: the update effect tests isHydrated only, as the snippet shown in
\* the implementation tab does.
UpdateEffect_AnyMode(s, t) ==
    IF s.deps[2]
    THEN [s EXCEPT !.timers = setInterval(@, t),
                   !.cleanup = NewHandle(s.timers),
                   !.console = Append(@, "Setting up client-side time updates")]
    ELSE s

\* Variant: the update effect tests the mode only.
UpdateEffect_Unhydrated(s, t) ==
    IF s.deps[1] = "client"
    THEN [s EXCEPT !.timers = setInterval(@, t),
                   !.cleanup = NewHandle(s.timers),
                   !.console = Append(@, "Setting up client-side time updates")]
    ELSE s

\* Variant: the update effect also writes the current time when it arms.
UpdateEffect_ImmediateTick(s, t) ==
    IF s.deps[1] = "client" /\ s.deps[2]
    THEN [s EXCEPT !.timers = setInterval(@, t),
                   !.cleanup = NewHandle(s.timers),
                   !.queue = Append(@, [kind |-> "updater", t |-> t]),
                   !.console = Append(@, "Setting up client-side time updates")]
    ELSE s

\* The body of the update effect, run with the mode and isHydrated of the
\* committed render.
UpdateEffect(s, t) ==
    IF s.deps[1] = "client" /\ s.deps[2]
    THEN [s EXCEPT !.timers = setInterval(@, t),
                   !.cleanup = NewHandle(s.timers),
                   !.console = Append(@, "Setting up client-side time updates")]
    ELSE s

\* Variant: the cleanup logs and does not clear the interval.
UpdateEffectCleanup_NoClear(s) ==
    IF s.cleanup # 0
    THEN [s EXCEPT !.cleanup = 0,
                   !.console = Append(@, "Cleaning up client-side updates")]
    ELSE s

\* The function the update effect returned, if it returned one.
UpdateEffectCleanup(s) ==
    IF s.cleanup # 0
    THEN [s EXCEPT !.timers = clearInterval(@, s.cleanup),
                   !.cleanup = 0,
                   !.console = Append(@, "Cleaning up client-side updates")]
    ELSE s

\* React's flush of the scheduled passive effects: cleanups first (that of
\* a re-run effect or of an unmounted one), then the effects in declaration
\* order.  An update an effect makes stays enqueued.
flushPassiveEffects(s, t) ==
    LET p  == s.pendingEffects
        s1 == IF "update" \in p \/ "cleanup" \in p
              THEN UpdateEffectCleanup(s) ELSE s
        s2 == IF "hydration" \in p THEN HydrationEffect(s1, t) ELSE s1
        s3 == IF "update" \in p THEN UpdateEffect(s2, t) ELSE s2
    IN  [s3 EXCEPT !.pendingEffects = {}]

\* The first render of a TimeDisplay instance.
FirstRender(tm, mode) ==
    Render([timeData |-> InitialTimeData, queue |-> <<>>, view |-> NoView,
            deps |-> NoDeps, pendingEffects |-> {"hydration"}, cleanup |-> 0,
            timers |-> tm, console |-> <<>>, hydrations |-> 0], mode)

\* The Switch reports the opposite of its checked prop when clicked.
SwitchClick(checked) == ~checked

\* Variant: the handler sets 'client' whatever the Switch reports.
onCheckedChange_AlwaysClient(checked) == "client"

\* onCheckedChange={(checked) => setRenderMode(checked ? 'client' : 'server')}
onCheckedChange(checked) == IF checked THEN "client" ELSE "server"

Init ==
    /\ renderMode = "server"
    /\ mounted = TRUE
    /\ now = Start
    /\ LET s == FirstRender({}, "server") IN
        /\ timeData = s.timeData
        /\ queue = s.queue
        /\ view = s.view
        /\ deps = s.deps
        /\ pendingEffects = s.pendingEffects
        /\ cleanup = s.cleanup
        /\ timers = s.timers
        /\ console = s.console
        /\ hydrations = s.hydrations

\* A new mount of the tree: SuspensePreview starts from useState('server').
\* Passive effects still pending are flushed before the render.
Mount ==
    /\ ~mounted
    /\ mounted' = TRUE
    /\ renderMode' = "server"
    /\ LET s0 == flushPassiveEffects(Fiber, now) IN
       Commit([FirstRender(s0.timers, "server") EXCEPT !.console = s0.console])
    /\ UNCHANGED now

FlushEffects ==
    /\ pendingEffects # {}
    /\ Commit(flushPassiveEffects(Fiber, now))
    /\ UNCHANGED <<renderMode, mounted, now>>

\* The render React scheduled for the enqueued updates; pending passive
\* effects are flushed before it.
ScheduledRender ==
    /\ mounted
    /\ queue # <<>>
    /\ Commit(RenderQueue(flushPassiveEffects(Fiber, now), renderMode))
    /\ UNCHANGED <<renderMode, mounted, now>>

\* A click on the Switch: the pending passive effects are flushed, the click
\* is rendered (with or without the updates already enqueued) and the
\* effects of that render are flushed, all in the task of the click.
Toggle ==
    /\ mounted
    /\ \E take \in BOOLEAN :
        LET m  == onCheckedChange(SwitchClick(renderMode = "client"))
            s1 == flushPassiveEffects(Fiber, now)
            s2 == IF take THEN RenderQueue(s1, m) ELSE Render(s1, m)
        IN  /\ renderMode' = m
            /\ Commit(flushPassiveEffects(s2, now))
    /\ UNCHANGED <<mounted, now>>

\* The interval falls due: its callback calls setTimeData with an updater,
\* and the browser schedules the next firing.
TimerCallback(t) ==
    /\ t \in timers
    /\ now >= t.due
    /\ LET tm == (timers \ {t}) \cup {[t EXCEPT !.due = @ + Interval]}
           s0 == [Fiber EXCEPT !.timers = tm]
       IN  IF mounted /\ t.live
           THEN Commit([s0 EXCEPT !.queue = Append(@, [kind |-> "updater", t |-> now])])
           ELSE Commit(s0)
    /\ UNCHANGED <<renderMode, mounted, now>>

Tick == \E t \in timers : TimerCallback(t)

\* The tree is unmounted: React flushes the passive effects still pending,
\* removes the tree and drops the enqueued updates; the cleanup of the
\* update effect runs in this task (sync) or is left to a later flush.
Unmount ==
    /\ mounted
    /\ mounted' = FALSE
    /\ \E sync \in BOOLEAN :
        LET s1 == flushPassiveEffects(Fiber, now)
            s2 == [s1 EXCEPT !.view = NoView,
                             !.deps = NoDeps,
                             !.queue = <<>>,
                             !.timers = {[t EXCEPT !.live = FALSE] : t \in @}]
        IN  IF sync \/ s2.cleanup = 0
            THEN Commit(UpdateEffectCleanup(s2))
            ELSE Commit([s2 EXCEPT !.pendingEffects = {"cleanup"}])
    /\ UNCHANGED <<renderMode, now>>

\* Time passes; an interval callback runs when it falls due, and a
\* scheduled render runs before the clock moves on.
Advance ==
    LET d == Min({Step} \cup {t.due - now : t \in timers}) IN
    /\ d > 0
    /\ queue = <<>>
    /\ now + d <= MaxNow
    /\ now' = now + d
    /\ console' = <<>>
    /\ UNCHANGED <<renderMode, mounted, timeData, queue, view, deps,
                   pendingEffects, cleanup, timers, hydrations>>

Next ==
    \/ Mount
    \/ FlushEffects
    \/ ScheduledRender
    \/ Toggle
    \/ Tick
    \/ Unmount
    \/ Advance

Spec == Init /\ [][Next]_vars

TypeOK ==
    /\ renderMode \in Modes
    /\ mounted \in BOOLEAN
    /\ timeData.isHydrated \in BOOLEAN
    /\ pendingEffects \subseteq {"hydration", "update", "cleanup"}
    /\ \A i \in 1..Len(queue) : queue[i].kind \in {"set", "updater"}
    /\ cleanup \in Nat
    /\ hydrations \in Nat
    /\ now \in Start..MaxNow

(***************************************************************************)
(* Helpers of the properties.                                              *)
(***************************************************************************)
Code(c) ==
    CASE c = "-" -> 45 [] c = "." -> 46 [] c = "0" -> 48 [] c = "1" -> 49
      [] c = "2" -> 50 [] c = "3" -> 51 [] c = "4" -> 52 [] c = "5" -> 53
      [] c = "6" -> 54 [] c = "7" -> 55 [] c = "8" -> 56 [] c = "9" -> 57
      [] c = ":" -> 58 [] c = "T" -> 84 [] c = "Z" -> 90

\* a < b as JavaScript compares strings
StrLess(a, b) ==
    \E i \in 1..Len(b) :
        /\ \A j \in 1..(i - 1) : j <= Len(a) /\ a[j] = b[j]
        /\ i > Len(a) \/ Code(a[i]) < Code(b[i])

Digits == {"0", "1", "2", "3", "4", "5", "6", "7", "8", "9"}

\* YYYY-MM-DDTHH:mm:ss.sssZ
IsISO8601(x) ==
    /\ Len(x) = 24
    /\ x[5] = "-" /\ x[8] = "-" /\ x[11] = "T" /\ x[14] = ":" /\ x[17] = ":"
    /\ x[20] = "." /\ x[24] = "Z"
    /\ \A i \in (1..23) \ {5, 8, 11, 14, 17, 20} : x[i] \in Digits

TimerIds(tm) == {t.id : t \in tm}

SetUpLine == "Setting up client-side time updates"
CleanUpLine == "Cleaning up client-side updates"

StaticView(v) ==
    /\ v.component = "TimeDisplay"
    /\ v.indicator = "bg-blue-500"
    /\ v.label = "Server Rendered"
    /\ v.message = "Static server render with Suspense"

LiveView(v) ==
    /\ v.component = "TimeDisplay"
    /\ v.indicator = "bg-green-500 animate-pulse"
    /\ v.label = "Client Rendered"
    /\ v.message = "Live updating with Suspense"

(***************************************************************************)
(* Properties.                                                             *)
(***************************************************************************)

\* The updates enqueued once the pending hydration effect, if any, has run.
QueueAfterFlush ==
    IF "hydration" \in pendingEffects
    THEN Append(queue, [kind |-> "set", t |-> now])
    ELSE queue

HasSet(q) == \E i \in 1..Len(q) : q[i].kind = "set"

\* a step of a mounted, hydrated widget in which the mode is and stays 'server'
StaysServer ==
    /\ mounted /\ mounted'
    /\ timeData.isHydrated
    /\ renderMode = "server" /\ renderMode' = "server"

\* C1: in every mount, as long as the hydration effect has not run, the
\* rendered output is the loading placeholder, the timestamp is empty and
\* isHydrated is false; the first render gives the placeholder for either
\* value of the mode prop.
C1_FirstRenderIsLoading ==
    /\ mounted /\ hydrations = 0 =>
        /\ view = LoadingDisplay
        /\ timeData.timestamp = <<>>
        /\ timeData.isHydrated = FALSE
        /\ queue = <<>>
    /\ \A m \in Modes : TimeDisplay(m, InitialTimeData) = LoadingDisplay

C1_Witness ==
    /\ mounted
    /\ hydrations = 0
    /\ pendingEffects = {"hydration", "update"}
    /\ view = LoadingDisplay
    /\ now > Start

\* C2: the hydration effect runs at most once in a mount and its update is
\* rendered once: while the widget is not hydrated the effect is scheduled
\* or its update is enqueued; once hydrated, the effect has run, no such
\* update is left, the timestamp is an ISO-8601 string, and isHydrated does
\* not return to false while the widget stays mounted.
C2_OneInitialization ==
    /\ [](mounted =>
            /\ hydrations <= 1
            /\ ("hydration" \in pendingEffects) = (hydrations = 0)
            /\ ~timeData.isHydrated => (hydrations = 0) \/ HasSet(queue)
            /\ timeData.isHydrated =>
                  /\ hydrations = 1
                  /\ ~HasSet(queue)
                  /\ IsISO8601(timeData.timestamp))
    /\ [][mounted /\ mounted' /\ timeData.isHydrated => timeData'.isHydrated]_vars

C2_Witness ==
    /\ mounted
    /\ hydrations = 1
    /\ timeData.isHydrated
    /\ renderMode = "client"
    /\ queue = <<>>
    /\ timeData.timestamp # toISOString(Start)
    /\ StrLess(timeData.timestamp, toISOString(now))

\* C3 as claimed: while the mode is 'server' and the widget is hydrated no
\* timer exists or is armed, and no step that leaves the mode 'server'
\* changes the timestamp.
C3_StaticNeverChanges ==
    /\ [](mounted /\ renderMode = "server" /\ timeData.isHydrated =>
            timers = {} /\ cleanup = 0)
    /\ [][StaysServer => timeData' = timeData /\ timers' = {}]_vars

\* C3, amended: while the mode is 'server' and the widget is hydrated no
\* timer exists or is armed and no update is enqueued; a step that leaves
\* the mode 'server' changes the timestamp only by rendering the updates
\* that were enqueued before the mode became 'server'.
C3_StaticChangesOnlyByQueue ==
    /\ [](mounted /\ renderMode = "server" /\ timeData.isHydrated =>
            timers = {} /\ cleanup = 0)
    /\ [][StaysServer =>
            /\ timers' = {}
            /\ \/ timeData' = timeData /\ queue' = queue
               \/ /\ queue # <<>>
                  /\ queue' = <<>>
                  /\ timeData' = processUpdateQueue(timeData, queue)]_vars

C3_Witness ==
    /\ mounted
    /\ renderMode = "server"
    /\ timeData.isHydrated
    /\ queue # <<>>
    /\ timers = {}
    /\ timeData.timestamp = toISOString(Start)
    /\ now >= Start + Interval

\* C4 as claimed: the step that switches the mode from 'client' to 'server'
\* clears the interval, no interval callback runs while the mode is
\* 'server', and the timestamp does not change while the mode stays
\* 'server'.
C4_SwitchFreezesTimestamp ==
    /\ [][renderMode = "client" /\ renderMode' = "server"
          => timers' = {} /\ cleanup' = 0]_vars
    /\ [][renderMode = "server" => ~Tick]_vars
    /\ [][StaysServer => timeData'.timestamp = timeData.timestamp]_vars

\* C4, amended: the step that switches the mode from 'client' to 'server'
\* clears the interval and enqueues nothing, and no interval callback runs
\* while the mode is 'server'; at most one update, enqueued by a callback
\* that ran before the switch, is left, and the timestamp changes after
\* the switch only when that update is rendered.
C4_SwitchCancelsTimer ==
    /\ [][renderMode = "client" /\ renderMode' = "server"
          => /\ timers' = {}
             /\ cleanup' = 0
             /\ queue' \in {QueueAfterFlush, <<>>}]_vars
    /\ [][renderMode = "server" => ~Tick]_vars
    /\ [](mounted /\ renderMode = "server" /\ timeData.isHydrated
            => Len(queue) <= 1)
    /\ [][StaysServer /\ timeData'.timestamp # timeData.timestamp
          => Len(queue) = 1 /\ queue' = <<>>]_vars

C4_Witness ==
    /\ mounted
    /\ renderMode = "server"
    /\ timeData.isHydrated
    /\ console = <<CleanUpLine>>
    /\ timers = {}
    /\ Len(queue) = 1
    /\ queue[1] = [kind |-> "updater", t |-> now]

\* C5 as claimed: the unmount clears the interval, no timer is active while
\* the widget is unmounted and no interval callback runs then.
C5_UnmountCancelsTimer ==
    /\ [][mounted /\ ~mounted' => timers' = {} /\ cleanup' = 0]_vars
    /\ [](~mounted => timers = {} /\ queue = <<>>)
    /\ [][~mounted => ~Tick]_vars

\* C6: a timer is armed only by an effect of a hydrated render, after the
\* hydration effect ran; no timer exists while the widget is not hydrated,
\* also when the mode is already 'client' then; an interval callback runs
\* only when the widget is hydrated.
C6_InitBeforeTimer ==
    /\ [][~(TimerIds(timers') \subseteq TimerIds(timers))
          => /\ hydrations' = 1
             /\ timeData'.isHydrated
             /\ mounted' => deps' = <<"client", TRUE>>]_vars
    /\ [](timers # {} => timeData.isHydrated /\ hydrations = 1)
    /\ [](mounted /\ ~timeData.isHydrated => timers = {} /\ cleanup = 0)
    /\ [][Tick => timeData.isHydrated /\ hydrations = 1]_vars

C6_Witness ==
    /\ mounted
    /\ renderMode = "client"
    /\ ~timeData.isHydrated
    /\ hydrations = 1
    /\ deps = <<"client", FALSE>>
    /\ pendingEffects = {}
    /\ timers = {}
    /\ view = LoadingDisplay

\* C7: while the mode is 'client' and the widget is hydrated (its effects
\* flushed), its interval is active and falls due within one period; each
\* callback enqueues one update and the interval falls due again one period
\* later; the render of the enqueued updates sets the timestamp to the
\* current time, and every change of the timestamp of a hydrated widget
\* is to a later one.
C7_PeriodicUpdate ==
    /\ [](mounted /\ renderMode = "client" /\ timeData.isHydrated
             /\ pendingEffects = {}
          => \E t \in timers :
                /\ t.id = cleanup
                /\ t.live
                /\ now <= t.due
                /\ t.due <= now + Interval)
    /\ [][Tick /\ mounted =>
            /\ queue' = Append(queue, [kind |-> "updater", t |-> now])
            /\ timeData' = timeData
            /\ \E t \in timers' : t.due = now + Interval]_vars
    /\ [][mounted /\ mounted' /\ queue # <<>> /\ queue' = <<>>
          => timeData'.timestamp = toISOString(now)]_vars
    /\ [][mounted /\ mounted' /\ timeData.isHydrated
            /\ timeData'.timestamp # timeData.timestamp
          => /\ StrLess(timeData.timestamp, timeData'.timestamp)
             /\ timeData'.isHydrated]_vars

C7_Witness ==
    /\ mounted
    /\ renderMode = "client"
    /\ console = <<>>
    /\ queue = <<>>
    /\ \E t \in timers : t.due = now + Interval
    /\ timeData.timestamp = toISOString(now)
    /\ now >= Start + 2 * Interval

\* C8: the output of a mounted widget is the loading placeholder when it is
\* not hydrated, the static view when it is hydrated and the mode is
\* 'server', the live view when it is hydrated and the mode is 'client'.
C8_ViewByState ==
    mounted =>
        /\ ~timeData.isHydrated => view = LoadingDisplay
        /\ timeData.isHydrated /\ renderMode = "server" => StaticView(view)
        /\ timeData.isHydrated /\ renderMode = "client" => LiveView(view)
        /\ view.timestamp = timeData.timestamp

C8_Witness ==
    /\ mounted
    /\ timeData.isHydrated
    /\ renderMode = "client"
    /\ LiveView(view)
    /\ view.timestamp # toISOString(Start)

\* C9: renderMode is 'server' at the start and after every mount; in a
\* mounted tree only a click on the Switch changes it, and every click
\* changes it to the other value; effects, renders, interval callbacks, the
\* unmount and the clock leave it as it is.
C9_ModeOnlyByToggle ==
    /\ renderMode = "server"
    /\ [][Mount => renderMode' = "server"]_vars
    /\ [][renderMode' # renderMode => Toggle \/ Mount]_vars
    /\ [][Toggle => renderMode' \in Modes \ {renderMode}]_vars
    /\ [][mounted /\ ~mounted' => renderMode' = renderMode]_vars

C9_Witness ==
    /\ renderMode = "server"
    /\ mounted
    /\ timeData.isHydrated
    /\ queue = <<>>
    /\ console = <<CleanUpLine>>

\* C10: in every state the timestamp is empty exactly when isHydrated is
\* false.
C10_EmptyIffUnhydrated ==
    (timeData.timestamp = <<>>) = ~timeData.isHydrated

C10_Witness ==
    /\ mounted
    /\ timeData.isHydrated
    /\ renderMode = "server"
    /\ timeData.timestamp # <<>>
    /\ timeData.timestamp # toISOString(Start)

\* C11 as claimed: a click on the Switch leaves timeData as it is; after a
\* switch from 'client' to 'server' the hydrated widget shows the static
\* view with the timestamp it had before the click, and that timestamp
\* stays.
C11_ToggleKeepsTimeData ==
    /\ [][Toggle => timeData' = timeData]_vars
    /\ [][mounted /\ timeData.isHydrated
            /\ renderMode = "client" /\ renderMode' = "server"
          => StaticView(view') /\ view'.timestamp = timeData.timestamp]_vars
    /\ [][StaysServer => view'.timestamp = view.timestamp]_vars

\* C11, amended: a click on the Switch enqueues no update of its own (the
\* hydration effect it flushes apart), and its render changes timeData only
\* by applying the updates enqueued before it; after a switch from 'client'
\* to 'server' the hydrated widget shows the static view with the committed
\* timestamp, which afterwards changes only to the value of an update that
\* a callback enqueued before the click.
C11_ToggleAppliesOnlyQueue ==
    /\ [][Toggle =>
            \/ timeData' = timeData /\ queue' = QueueAfterFlush
            \/ /\ timeData' = processUpdateQueue(timeData, QueueAfterFlush)
               /\ queue' = <<>>]_vars
    /\ [][mounted /\ timeData.isHydrated
            /\ renderMode = "client" /\ renderMode' = "server"
          => /\ StaticView(view')
             /\ view'.timestamp = timeData'.timestamp
             /\ timeData'.timestamp
                  \in {timeData.timestamp, toISOString(now)}]_vars
    /\ [][StaysServer /\ view'.timestamp # view.timestamp
          => /\ queue # <<>>
             /\ view'.timestamp = processUpdateQueue(timeData, queue).timestamp
             /\ StaticView(view')]_vars

C11_Witness ==
    /\ mounted
    /\ renderMode = "server"
    /\ timeData.isHydrated
    /\ console = <<CleanUpLine>>
    /\ queue = <<>>
    /\ StaticView(view)
    /\ view.timestamp = toISOString(now)
    /\ now >= Start + Interval

\* C12: a switch from 'server' to 'client' that leaves a mounted, hydrated
\* widget arms one new interval, due one period later and held by the
\* effect's cleanup; the render of the updates enqueued in 'client' mode
\* shows the current time in the live view.
C12_SwitchBackRearms ==
    /\ [][mounted /\ timeData'.isHydrated
            /\ renderMode = "server" /\ renderMode' = "client"
          => /\ timers = {}
             /\ \E t \in timers' :
                   /\ timers' = {t}
                   /\ t.id = cleanup'
                   /\ t.live
                   /\ t.due = now + Interval
             /\ console' = <<SetUpLine>>]_vars
    /\ [][mounted /\ mounted' /\ renderMode' = "client"
            /\ queue # <<>> /\ queue' = <<>>
          => LiveView(view') /\ view'.timestamp = toISOString(now)]_vars

C12_Witness ==
    /\ mounted
    /\ renderMode = "client"
    /\ timeData.isHydrated
    /\ console = <<SetUpLine>>
    /\ queue = <<>>
    /\ \E t \in timers : t.due = now + Interval
    /\ timeData.timestamp # toISOString(Start)
    /\ StrLess(timeData.timestamp, toISOString(now))

\* C13 as claimed: at most one interval is active in every state; an active
\* interval is the one the effect's cleanup holds and implies a mounted,
\* hydrated widget in 'client' mode; an interval is armed only when none is
\* active.
C13_AtMostOneTimer ==
    /\ [](Cardinality(timers) <= 1)
    /\ [](\A t \in timers :
            /\ t.id = cleanup
            /\ t.live
            /\ mounted
            /\ timeData.isHydrated
            /\ renderMode = "client")
    /\ [][~(TimerIds(timers') \subseteq TimerIds(timers))
          => timers = {} /\ Cardinality(timers') = 1]_vars
====
